---- MODULE Spec2Model ----
(***************************************************************************)
(* Step dispatch and run resolution of zenml:                              *)
(*   - PipelineView.runs / PipelineView.get_run_for_completed_step         *)
(*     (src/src/zenml/post_execution/pipeline.py)                          *)
(*   - StepEntrypointConfiguration: the argument codec, run(), _run_step   *)
(*     (src/src/zenml/entrypoints/step_entrypoint_configuration.py)        *)
(* The two halves share no state; SpecView runs the first with the store   *)
(* written between calls, SpecConc with the store written at any moment,   *)
(* SpecEntry runs the second.                                              *)
(***************************************************************************)
EXTENDS Integers, Sequences, FiniteSets, TLC

(***************************************************************************)
(* Part I: the run/step resolution view                                    *)
(***************************************************************************)

\* Largest number of runs the remote run store holds.
MaxRuns == 3

\* Names of the steps a run may contain.
StepNames == {"train", "eval"}

\* Python's None.
None == 0

\* No exception has been raised.
NoError == [type |-> "", step_name |-> ""]

VARIABLES
    store,              \* the remote run store: the runs, oldest first
    pc,                 \* position of the caller of get_run_for_completed_step
    step_name,          \* the argument of the call in progress
    fetched,            \* the list self.runs returned to the call
    iter,               \* reversed(self.runs), the sequence the loop walks
    pos,                \* index in iter of the next run the loop takes
    orig_pipeline_run,  \* the local of that name (None or a run id)
    error,              \* the exception the call raised (NoError when none)
    runs_seen,          \* what the last plain access of PipelineView.runs gave
    examined,           \* history: runs whose step the call fetched, in order
    store_at_call,      \* history: the store when the call started
    prev_result,        \* history: the previous call that returned a run
    latest_seen         \* history: every run that was, at some moment of the
                        \* call in progress, the newest with the step completed

viewVars == <<store, pc, step_name, fetched, iter, pos, orig_pipeline_run,
              error, runs_seen, examined, store_at_call, prev_result,
              latest_seen>>

\* The state of the entrypoint process (Part II).
VARIABLES
    epc,              \* position of the entrypoint process
    kwargs,           \* the keyword arguments of get_entrypoint_arguments
    arguments,        \* its outcome: [raises, tokens]
    entrypoint_args,  \* self.entrypoint_args, the decoded options
    parse_error,      \* what decoding raised
    deployment_config, \* run()'s local of that name
    step,             \* run()'s local `step`
    integrations,     \* number of activate_integrations() calls
    configured,       \* the steps load_and_configure_step was called with
    prepare_calls,    \* the deployments _prepare_run was called with
    run_step_calls,   \* the steps orchestrator.run_step was called with
    orch_result,      \* history: what orchestrator.run_step returned
    execution_info,   \* run()'s local: what _run_step returned
    post_run_calls,   \* the argument triples post_run was called with
    raised_by,        \* history: the collaborator that raised
    raised,           \* history: the exception it raised
    run_error,        \* the exception that left run()
    log               \* history: the stages completed, in order

entryVars == <<epc, kwargs, arguments, entrypoint_args, parse_error,
               deployment_config, step, integrations, configured,
               prepare_calls, run_step_calls, orch_result, execution_info,
               post_run_calls, raised_by, raised, run_error, log>>

\* A new run record: no step registered yet.
EmptyRun == [s \in StepNames |-> "absent"]

\* zen_store.list_runs(...): the stored runs in chronological order, each
\* identified by its position in the store.
ListRuns == [i \in 1..Len(store) |-> i]

\* A runs property answering from a list kept from before the newest run was
\* stored.
Runs_Cached == [i \in 1..(Len(store) - 1) |-> i]

\* PipelineView.runs: every access queries the store; nothing is kept.
Runs == ListRuns

\* Iterating oldest first.
Reversed_Forward(s) == s

\* Python's reversed(list).
Reversed(s) == [i \in 1..Len(s) |-> s[Len(s) + 1 - i]]

\* run.get_step(step_name): "KeyError" when the run has no step of that name,
\* else the step with its completion flag.
GetStep(run, name) ==
    IF store[run][name] = "absent"
    THEN [raises |-> "KeyError", is_completed |-> FALSE]
    ELSE [raises |-> "", is_completed |-> store[run][name] = "completed"]

\* The newest run of `st` holding a completed step `name` (None when none).
LatestCompleted(st, name) ==
    LET S == {k \in 1..Len(st) : st[k][name] = "completed"}
    IN  IF S = {} THEN None ELSE CHOOSE k \in S : \A j \in S : j <= k

\* The history of a call in progress, after a writer has made the store `st`.
SeenAfter(st) ==
    IF pc \in {"loop", "check"}
    THEN latest_seen \cup {LatestCompleted(st, step_name)}
    ELSE latest_seen

\* No call is in progress and no result is pending.
Idle == pc = "idle"

\* ---- other writers of the remote run store

\* A run is submitted: it is appended to the pipeline's runs.
AppendRun ==
    /\ Len(store) < MaxRuns
    /\ store' = Append(store, EmptyRun)
    /\ latest_seen' = SeenAfter(store')
    /\ UNCHANGED <<entryVars, pc, step_name, fetched, iter, pos,
                   orig_pipeline_run,
                   error, runs_seen, examined, store_at_call, prev_result>>

\* A step of a stored run starts: its record appears, not completed.
RegisterStep(i, s) ==
    /\ i \in 1..Len(store)
    /\ store[i][s] = "absent"
    /\ store' = [store EXCEPT ![i][s] = "incomplete"]
    /\ latest_seen' = SeenAfter(store')
    /\ UNCHANGED <<entryVars, pc, step_name, fetched, iter, pos,
                   orig_pipeline_run,
                   error, runs_seen, examined, store_at_call, prev_result>>

\* A step of a stored run finishes: its completion flag goes to true.
CompleteStep(i, s) ==
    /\ i \in 1..Len(store)
    /\ store[i][s] = "incomplete"
    /\ store' = [store EXCEPT ![i][s] = "completed"]
    /\ latest_seen' = SeenAfter(store')
    /\ UNCHANGED <<entryVars, pc, step_name, fetched, iter, pos,
                   orig_pipeline_run,
                   error, runs_seen, examined, store_at_call, prev_result>>

\* ---- PipelineView.runs, read by a caller on its own

AccessRuns ==
    /\ Idle
    /\ runs_seen' = Runs
    /\ store_at_call' = store
    /\ pc' = "runs_returned"
    /\ UNCHANGED <<entryVars, store, step_name, fetched, iter, pos,
                   orig_pipeline_run,
                   error, examined, prev_result, latest_seen>>

\* ---- PipelineView.get_run_for_completed_step(step_name)

\* Entry: orig_pipeline_run = None, then `reversed(self.runs)` is evaluated
\* once, before the first iteration.
Call(name) ==
    /\ Idle
    /\ step_name' = name
    /\ orig_pipeline_run' = None
    /\ fetched' = Runs
    /\ iter' = Reversed(Runs)
    /\ pos' = 1
    /\ error' = NoError
    /\ examined' = <<>>
    /\ store_at_call' = store
    /\ latest_seen' = {LatestCompleted(store, name)}
    /\ pc' = "loop"
    /\ UNCHANGED <<entryVars, store, runs_seen, prev_result>>

\* One iteration of a loop that keeps a completed step's run and does not
\* break.
Examine_NoBreak ==
    /\ pc = "loop"
    /\ pos <= Len(iter)
    /\ LET run == iter[pos]
           got == GetStep(run, step_name)
       IN  /\ examined' = Append(examined, run)
           /\ IF got.raises # "KeyError" /\ got.is_completed
              THEN /\ orig_pipeline_run' = run
                   /\ pc' = "loop"
                   /\ pos' = pos + 1
              ELSE /\ orig_pipeline_run' = orig_pipeline_run
                   /\ pc' = "loop"
                   /\ pos' = pos + 1
    /\ UNCHANGED <<entryVars, store, step_name, fetched, iter, error, runs_seen,
                   store_at_call, prev_result,
                   latest_seen>>

\* One iteration of the for loop: fetch the step; a KeyError is passed over,
\* an incomplete step falls through, a completed step is kept and breaks.
Examine ==
    /\ pc = "loop"
    /\ pos <= Len(iter)
    /\ LET run == iter[pos]
           got == GetStep(run, step_name)
       IN  /\ examined' = Append(examined, run)
           /\ IF got.raises # "KeyError" /\ got.is_completed
              THEN /\ orig_pipeline_run' = run
                   /\ pc' = "check"
                   /\ pos' = pos
              ELSE /\ orig_pipeline_run' = orig_pipeline_run
                   /\ pc' = "loop"
                   /\ pos' = pos + 1
    /\ UNCHANGED <<entryVars, store, step_name, fetched, iter, error, runs_seen,
                   store_at_call, prev_result,
                   latest_seen>>

\* The iterator is exhausted: the loop ends without a break.
Exhausted ==
    /\ pc = "loop"
    /\ pos > Len(iter)
    /\ pc' = "check"
    /\ UNCHANGED <<entryVars, store, step_name, fetched, iter, pos,
                   orig_pipeline_run,
                   error, runs_seen, examined, store_at_call, prev_result,
                   latest_seen>>

\* After the loop, returning None when nothing was found.
Finish_ReturnsNone ==
    /\ pc = "check"
    /\ pc' = "returned"
    /\ error' = NoError
    /\ UNCHANGED <<entryVars, store, step_name, fetched, iter, pos,
                   orig_pipeline_run,
                   runs_seen, examined, store_at_call, prev_result,
                   latest_seen>>

\* After the loop: `if not orig_pipeline_run: raise LookupError(...)`, whose
\* message holds the step name; else `return orig_pipeline_run`.
Finish ==
    /\ pc = "check"
    /\ IF orig_pipeline_run = None
       THEN /\ pc' = "raised"
            /\ error' = [type |-> "LookupError", step_name |-> step_name]
       ELSE /\ pc' = "returned"
            /\ error' = NoError
    /\ UNCHANGED <<entryVars, store, step_name, fetched, iter, pos,
                   orig_pipeline_run,
                   runs_seen, examined, store_at_call, prev_result,
                   latest_seen>>

\* The caller has the result (a run, the exception, or the list of runs): the
\* call's frame is gone. The caller remembers the run a call returned.
Return ==
    /\ pc \in {"returned", "raised", "runs_returned"}
    /\ prev_result' = IF pc = "returned"
                      THEN [step_name |-> step_name, run |-> orig_pipeline_run]
                      ELSE prev_result
    /\ pc' = "idle"
    /\ step_name' = "train"
    /\ fetched' = <<>>
    /\ iter' = <<>>
    /\ pos' = 1
    /\ orig_pipeline_run' = None
    /\ error' = NoError
    /\ runs_seen' = <<>>
    /\ examined' = <<>>
    /\ store_at_call' = <<>>
    /\ latest_seen' = {}
    /\ UNCHANGED <<entryVars, store>>

Reader ==
    \/ AccessRuns
    \/ \E name \in StepNames : Call(name)
    \/ Examine
    \/ Exhausted
    \/ Finish
    \/ Return

InitView ==
    /\ store = <<>>
    /\ pc = "idle"
    /\ step_name = "train"
    /\ fetched = <<>>
    /\ iter = <<>>
    /\ pos = 1
    /\ orig_pipeline_run = None
    /\ error = NoError
    /\ runs_seen = <<>>
    /\ examined = <<>>
    /\ store_at_call = <<>>
    /\ prev_result = [step_name |-> "", run |-> None]
    /\ latest_seen = {}

\* The store changes only between calls: a call sees one list of runs.
NextView ==
    \/ Reader
    \/ (Idle /\ AppendRun)
    \/ (Idle /\ \E i \in 1..MaxRuns, s \in StepNames : RegisterStep(i, s))
    \/ (Idle /\ \E i \in 1..MaxRuns, s \in StepNames : CompleteStep(i, s))

\* Other processes write to the store at any moment, also between two
\* iterations of a call in progress.
NextConc ==
    \/ Reader
    \/ AppendRun
    \/ \E i \in 1..MaxRuns, s \in StepNames : RegisterStep(i, s)
    \/ \E i \in 1..MaxRuns, s \in StepNames : CompleteStep(i, s)


(***************************************************************************)
(* Part II: the step entrypoint: argument codec, run(), _run_step          *)
(* Strings that are put on or read off the command line are sequences of   *)
(* characters, so that "--" + name is a real concatenation.                *)
(***************************************************************************)

\* STEP_NAME_OPTION = "step_name"
STEP_NAME_OPTION == <<"s", "t", "e", "p", "_", "n", "a", "m", "e">>

\* The one option the base class BaseEntrypointConfiguration declares.
BASE_OPTION == <<"b", "a", "s", "e">>

\* Values a caller may pass: two step names and a string that starts with
\* two dashes.
Train == <<"t", "r", "a", "i", "n">>
Eval == <<"e", "v", "a", "l">>
Dashed == <<"-", "-", "x">>
Values == {Train, Eval, Dashed}

\* No step.
NoStep == [name |-> <<>>]

\* No deployment.
NoDeployment == [pipeline |-> "", steps |-> {}]

\* The deployments load_deployment_config() may give: a pipeline name and the
\* keys of its `steps` mapping.
Deployments ==
    [pipeline : {"training", "inference"}, steps : SUBSET {Train, Eval}]

\* ExecutionInfo objects an orchestrator may return (None besides).
ExecutionInfos == {1, 2}

\* Exceptions the collaborators may raise ("" is no exception).
LoadErrors == {"DeploymentLoadError"}
OrchestratorErrors == {"OrchestratorError", "ConnectionError"}
HookErrors == {"HookError"}

\* ---- the argument codec

\* "--" + s
Flag(s) == <<"-", "-">> \o s

\* BaseEntrypointConfiguration.get_entrypoint_options()
BaseGetEntrypointOptions == {BASE_OPTION}

\* BaseEntrypointConfiguration.get_entrypoint_arguments(**kwargs): a value
\* for every base option, else a usage error.
BaseGetEntrypointArguments(kw) ==
    IF BASE_OPTION \in DOMAIN kw
    THEN [raises |-> "", tokens |-> <<Flag(BASE_OPTION), kw[BASE_OPTION]>>]
    ELSE [raises |-> "UsageError", tokens |-> <<>>]

\* StepEntrypointConfiguration.get_entrypoint_options()
GetEntrypointOptions == BaseGetEntrypointOptions \cup {STEP_NAME_OPTION}

\* An arguments method that reads the step name with a default.
GetEntrypointArguments_Default(kw) ==
    LET base == BaseGetEntrypointArguments(kw)
    IN  IF base.raises # ""
        THEN base
        ELSE [raises |-> "",
              tokens |-> base.tokens \o
                         <<Flag(STEP_NAME_OPTION),
                           IF STEP_NAME_OPTION \in DOMAIN kw
                           THEN kw[STEP_NAME_OPTION] ELSE <<>> >>]

\* StepEntrypointConfiguration.get_entrypoint_arguments(**kwargs): the
\* superclass call comes first, then the list with kwargs[STEP_NAME_OPTION],
\* a KeyError when the key is missing.
GetEntrypointArguments(kw) ==
    LET base == BaseGetEntrypointArguments(kw)
    IN  IF base.raises # ""
        THEN base
        ELSE IF STEP_NAME_OPTION \notin DOMAIN kw
        THEN [raises |-> "KeyError", tokens |-> <<>>]
        ELSE [raises |-> "",
              tokens |-> base.tokens \o
                         <<Flag(STEP_NAME_OPTION), kw[STEP_NAME_OPTION]>>]

\* A token that reads as an option: it starts with a dash.
IsOptionLike(t) == Len(t) >= 1 /\ t[1] = "-"

\* A token "--name" or "--name=value".
IsFlag(t) == Len(t) >= 2 /\ t[1] = "-" /\ t[2] = "-"

\* The position of the first "=" of a token (0 when it has none).
EqualsAt(t) ==
    IF \E i \in 1..Len(t) : t[i] = "="
    THEN CHOOSE i \in 1..Len(t) : t[i] = "=" /\ \A j \in 1..(i - 1) : t[j] # "="
    ELSE 0

\* The decoder: an argument parser that takes "--option value" and
\* "--option=value", requires every declared option, and takes no token that
\* is not a declared option or its value. Tokens are read from position i on;
\* acc holds the options read so far.
RECURSIVE ParseFrom(_, _, _, _)
ParseFrom(tokens, options, i, acc) ==
    IF i > Len(tokens)
    THEN IF DOMAIN acc = options
         THEN [raises |-> "", args |-> acc]
         ELSE [raises |-> "UsageError", args |-> <<>>]
    ELSE LET t == tokens[i]
             eq == EqualsAt(t)
             name == IF eq = 0 THEN SubSeq(t, 3, Len(t))
                     ELSE SubSeq(t, 3, eq - 1)
         IN  IF ~IsFlag(t) \/ name \notin options
             THEN [raises |-> "UsageError", args |-> <<>>]
             ELSE IF eq # 0
             THEN ParseFrom(tokens, options, i + 1,
                            (name :> SubSeq(t, eq + 1, Len(t))) @@ acc)
             ELSE IF i + 1 > Len(tokens) \/ IsOptionLike(tokens[i + 1])
             THEN [raises |-> "UsageError", args |-> <<>>]
             ELSE ParseFrom(tokens, options, i + 2,
                            (name :> tokens[i + 1]) @@ acc)

\* Decoding the tokens of an entrypoint invocation.
ParseArguments(tokens) == ParseFrom(tokens, GetEntrypointOptions, 1, <<>>)

\* Every keyword mapping a caller may pass: values for any of the declared
\* options; the value of the base class's option has no dash.
KeywordMappings ==
    {kw \in UNION {[D -> Values] :
                   D \in SUBSET (BaseGetEntrypointOptions
                                 \cup {STEP_NAME_OPTION})} :
        BASE_OPTION \in DOMAIN kw => kw[BASE_OPTION] \in {Train, Eval}}

\* An orchestrator builds the arguments of a step's entrypoint.
Construct(kw) ==
    /\ epc = "start"
    /\ kwargs' = kw
    /\ arguments' = GetEntrypointArguments(kw)
    /\ epc' = IF arguments'.raises = "" THEN "constructed" ELSE "usage_error"
    /\ UNCHANGED <<viewVars, entrypoint_args, parse_error, deployment_config,
                   step,
                   integrations, configured, prepare_calls, run_step_calls,
                   orch_result, execution_info, post_run_calls, raised_by,
                   raised, run_error, log>>

\* The entrypoint process starts with these tokens and decodes them into
\* self.entrypoint_args.
Decode ==
    /\ epc = "constructed"
    /\ LET r == ParseArguments(arguments.tokens)
       IN  IF r.raises = ""
           THEN /\ entrypoint_args' = r.args
                /\ parse_error' = ""
                /\ epc' = "decoded"
           ELSE /\ entrypoint_args' = entrypoint_args
                /\ parse_error' = r.raises
                /\ epc' = "parse_error"
    /\ UNCHANGED <<viewVars, kwargs, arguments, deployment_config, step,
                   integrations,
                   configured, prepare_calls, run_step_calls, orch_result,
                   execution_info, post_run_calls, raised_by, raised,
                   run_error, log>>

\* ---- StepEntrypointConfiguration.run()

\* run()'s local step_name = self.entrypoint_args[STEP_NAME_OPTION]
RunStepName == entrypoint_args[STEP_NAME_OPTION]

\* run()'s local pipeline_name = deployment_config.pipeline.name
PipelineName == deployment_config.pipeline

\* An exception `e` raised by collaborator `who` leaves run(): nothing in
\* run() or _run_step catches it.
Raise(who, e) ==
    /\ epc' = "failed"
    /\ raised_by' = who
    /\ raised' = e
    /\ run_error' = e

\* deployment_config = self.load_deployment_config()
Load ==
    /\ epc = "decoded"
    /\ \/ /\ \E e \in LoadErrors : Raise("load_deployment_config", e)
          /\ UNCHANGED <<deployment_config, log>>
       \/ /\ \E d \in Deployments : deployment_config' = d
          /\ log' = Append(log, "load")
          /\ epc' = "loaded"
          /\ UNCHANGED <<raised_by, raised, run_error>>
    /\ UNCHANGED <<viewVars, kwargs, arguments, entrypoint_args, parse_error,
                   step,
                   integrations, configured, prepare_calls, run_step_calls,
                   orch_result, execution_info, post_run_calls>>

\* The two locals are read, then integration_registry.activate_integrations()
Activate ==
    /\ epc = "loaded"
    /\ integrations' = integrations + 1
    /\ log' = Append(log, "activate")
    /\ epc' = "activated"
    /\ UNCHANGED <<viewVars, kwargs, arguments, entrypoint_args, parse_error,
                   deployment_config, step, configured, prepare_calls,
                   run_step_calls, orch_result, execution_info,
                   post_run_calls, raised_by, raised, run_error>>

\* A lookup that answers a missing key with an empty step instead of raising.
Resolve_Lenient ==
    /\ epc = "activated"
    /\ step' = IF RunStepName \in deployment_config.steps
               THEN [name |-> RunStepName] ELSE NoStep
    /\ log' = Append(log, "resolve")
    /\ epc' = "resolved"
    /\ UNCHANGED <<viewVars, kwargs, arguments, entrypoint_args, parse_error,
                   deployment_config, integrations, configured, prepare_calls,
                   run_step_calls, orch_result, execution_info,
                   post_run_calls, raised_by, raised, run_error>>

\* step = deployment_config.steps[step_name]: a KeyError for a missing key
Resolve ==
    /\ epc = "activated"
    /\ IF RunStepName \in deployment_config.steps
       THEN /\ step' = [name |-> RunStepName]
            /\ log' = Append(log, "resolve")
            /\ epc' = "resolved"
            /\ UNCHANGED <<raised_by, raised, run_error>>
       ELSE /\ Raise("steps", "KeyError")
            /\ UNCHANGED <<step, log>>
    /\ UNCHANGED <<viewVars, kwargs, arguments, entrypoint_args, parse_error,
                   deployment_config, integrations, configured, prepare_calls,
                   run_step_calls, orch_result, execution_info,
                   post_run_calls>>

\* A run() that does not configure the step.
Configure_Missing ==
    /\ epc = "resolved"
    /\ epc' = "configured"
    /\ UNCHANGED <<viewVars, kwargs, arguments, entrypoint_args, parse_error,
                   deployment_config, step, integrations, configured,
                   prepare_calls, run_step_calls, orch_result, execution_info,
                   post_run_calls, raised_by, raised, run_error, log>>

\* entrypoint_utils.load_and_configure_step(step)
Configure ==
    /\ epc = "resolved"
    /\ configured' = Append(configured, step)
    /\ log' = Append(log, "configure")
    /\ epc' = "configured"
    /\ UNCHANGED <<viewVars, kwargs, arguments, entrypoint_args, parse_error,
                   deployment_config, step, integrations, prepare_calls,
                   run_step_calls, orch_result, execution_info,
                   post_run_calls, raised_by, raised, run_error>>

\* ---- StepEntrypointConfiguration._run_step(step, deployment)

\* A bridge that passes over an exception of the preparation hook.
PrepareRun_Suppressed ==
    /\ epc = "configured"
    /\ prepare_calls' = Append(prepare_calls, deployment_config)
    /\ epc' = "prepared"
    /\ \/ /\ \E e \in OrchestratorErrors : raised' = e
          /\ raised_by' = "_prepare_run"
       \/ UNCHANGED <<raised_by, raised>>
    /\ UNCHANGED <<viewVars, kwargs, arguments, entrypoint_args, parse_error,
                   deployment_config, step, integrations, configured,
                   run_step_calls, orch_result, execution_info,
                   post_run_calls, run_error, log>>

\* orchestrator = Client().active_stack.orchestrator
\* orchestrator._prepare_run(deployment=deployment)
PrepareRun ==
    /\ epc = "configured"
    /\ prepare_calls' = Append(prepare_calls, deployment_config)
    /\ \/ \E e \in OrchestratorErrors : Raise("_prepare_run", e)
       \/ /\ epc' = "prepared"
          /\ UNCHANGED <<raised_by, raised, run_error>>
    /\ UNCHANGED <<viewVars, kwargs, arguments, entrypoint_args, parse_error,
                   deployment_config, step, integrations, configured,
                   run_step_calls, orch_result, execution_info,
                   post_run_calls, log>>

\* A bridge that calls run_step and returns nothing.
RunStep_DropsResult ==
    /\ epc = "prepared"
    /\ run_step_calls' = Append(run_step_calls, step)
    /\ \/ /\ \E e \in OrchestratorErrors : Raise("run_step", e)
          /\ UNCHANGED <<orch_result, execution_info, log>>
       \/ /\ \E info \in ExecutionInfos \cup {None} : orch_result' = info
          /\ execution_info' = None
          /\ log' = Append(log, "dispatch")
          /\ epc' = "dispatched"
          /\ UNCHANGED <<raised_by, raised, run_error>>
    /\ UNCHANGED <<viewVars, kwargs, arguments, entrypoint_args, parse_error,
                   deployment_config, step, integrations, configured,
                   prepare_calls, post_run_calls>>

\* return orchestrator.run_step(step=step), assigned to run()'s
\* execution_info
RunStep ==
    /\ epc = "prepared"
    /\ run_step_calls' = Append(run_step_calls, step)
    /\ \/ /\ \E e \in OrchestratorErrors : Raise("run_step", e)
          /\ UNCHANGED <<orch_result, execution_info, log>>
       \/ /\ \E info \in ExecutionInfos \cup {None} :
                /\ orch_result' = info
                /\ execution_info' = info
          /\ log' = Append(log, "dispatch")
          /\ epc' = "dispatched"
          /\ UNCHANGED <<raised_by, raised, run_error>>
    /\ UNCHANGED <<viewVars, kwargs, arguments, entrypoint_args, parse_error,
                   deployment_config, step, integrations, configured,
                   prepare_calls, post_run_calls>>

\* ---- the post_run hook, called by run()

\* A run() that catches what the hook raises.
PostRun_Swallows ==
    /\ epc = "dispatched"
    /\ post_run_calls' = Append(post_run_calls,
                                [pipeline_name |-> PipelineName,
                                 step_name |-> RunStepName,
                                 execution_info |-> execution_info])
    /\ log' = Append(log, "post_run")
    /\ epc' = "done"
    /\ \/ /\ \E e \in HookErrors : raised' = e
          /\ raised_by' = "post_run"
       \/ UNCHANGED <<raised_by, raised>>
    /\ UNCHANGED <<viewVars, kwargs, arguments, entrypoint_args, parse_error,
                   deployment_config, step, integrations, configured,
                   prepare_calls, run_step_calls, orch_result, execution_info,
                   run_error>>

\* self.post_run(pipeline_name=..., step_name=..., execution_info=...): the
\* hook of a subclass may raise.
PostRun ==
    /\ epc = "dispatched"
    /\ post_run_calls' = Append(post_run_calls,
                                [pipeline_name |-> PipelineName,
                                 step_name |-> RunStepName,
                                 execution_info |-> execution_info])
    /\ \/ /\ \E e \in HookErrors : Raise("post_run", e)
          /\ UNCHANGED log
       \/ /\ log' = Append(log, "post_run")
          /\ epc' = "done"
          /\ UNCHANGED <<raised_by, raised, run_error>>
    /\ UNCHANGED <<viewVars, kwargs, arguments, entrypoint_args, parse_error,
                   deployment_config, step, integrations, configured,
                   prepare_calls, run_step_calls, orch_result, execution_info>>

InitEntry ==
    /\ epc = "start"
    /\ kwargs = <<>>
    /\ arguments = [raises |-> "", tokens |-> <<>>]
    /\ entrypoint_args = <<>>
    /\ parse_error = ""
    /\ deployment_config = NoDeployment
    /\ step = NoStep
    /\ integrations = 0
    /\ configured = <<>>
    /\ prepare_calls = <<>>
    /\ run_step_calls = <<>>
    /\ orch_result = None
    /\ execution_info = None
    /\ post_run_calls = <<>>
    /\ raised_by = ""
    /\ raised = ""
    /\ run_error = ""
    /\ log = <<>>

NextEntry ==
    \/ \E kw \in KeywordMappings : Construct(kw)
    \/ Decode
    \/ Load
    \/ Activate
    \/ Resolve
    \/ Configure
    \/ PrepareRun
    \/ RunStep
    \/ PostRun

vars == <<viewVars, entryVars>>

Init == InitView /\ InitEntry

\* The resolution view alone.
SpecView == Init /\ [][NextView]_vars

\* The resolution view with writers that run concurrently with a call.
SpecConc == Init /\ [][NextConc]_vars

\* The entrypoint alone.
SpecEntry == Init /\ [][NextEntry]_vars

(***************************************************************************)
(* Claims about the step entrypoint                                        *)
(***************************************************************************)

\* s is an initial part of t.
IsPrefix(s, t) == Len(s) <= Len(t) /\ SubSeq(t, 1, Len(s)) = s

\* The stages of run() in the order its body completes them; "dispatch" is
\* _run_step from its first line to its return.
RunStages ==
    <<"load", "activate", "resolve", "configure", "dispatch", "post_run">>

\* C3 as amended: the stages of run() complete at most once each and in the
\* order load, activate integrations, resolve the step (the lookup
\* deployment.steps[step_name]), configure, dispatch, post_run; a run() that
\* succeeds has completed all six.
C3_StageOrder ==
    /\ IsPrefix(log, RunStages)
    /\ epc = "done" => log = RunStages

\* C3 as stated: a successful run() has resolved the step before it
\* activated the integrations.
C3_ResolveBeforeActivate ==
    epc = "done"
    => log = <<"load", "resolve", "activate", "configure", "dispatch",
               "post_run">>

\* C3's case: run() succeeded.
C3_Witness == epc = "done" /\ Len(log) = 6

\* _run_step was called and has returned to run().
DispatchReturned ==
    \/ epc \in {"dispatched", "done"}
    \/ epc = "failed" /\ raised_by = "post_run"

\* C4: one call of _run_step that returns has called _prepare_run once, with
\* the deployment, then run_step once, with the step, and what it returned is
\* what run_step returned (None included); run_step never starts before
\* _prepare_run has finished.
C4_DispatchForwarding ==
    /\ Len(prepare_calls) <= 1
    /\ Len(run_step_calls) <= 1
    /\ run_step_calls # <<>>
       => prepare_calls # <<>> /\ raised_by # "_prepare_run"
    /\ DispatchReturned
       => /\ prepare_calls = <<deployment_config>>
          /\ run_step_calls = <<step>>
          /\ execution_info = orch_result

\* C4's case: the bridge returned the None that run_step returned.
C4_Witness ==
    /\ DispatchReturned
    /\ orch_result = None
    /\ execution_info = None
    /\ Len(run_step_calls) = 1

\* C5: an exception of the orchestrator's _prepare_run or run_step leaves
\* run() as it was raised; run_step is not called again (and not at all when
\* _prepare_run raised), and post_run is not called.
C5_OrchestratorErrorPropagates ==
    raised_by \in {"_prepare_run", "run_step"}
    => /\ epc = "failed"
       /\ raised \in OrchestratorErrors
       /\ run_error = raised
       /\ post_run_calls = <<>>
       /\ Len(prepare_calls) = 1
       /\ Len(run_step_calls) = IF raised_by = "run_step" THEN 1 ELSE 0
       /\ log = <<"load", "activate", "resolve", "configure">>

\* C5's case: run_step raised.
C5_Witness ==
    /\ raised_by = "run_step"
    /\ epc = "failed"
    /\ run_error \in OrchestratorErrors

\* C6: post_run is called with the loaded deployment's pipeline name, the
\* decoded step name and the execution info the dispatch returned, and an
\* exception of the hook leaves run() as it was raised.
C6_HookErrorPropagates ==
    /\ post_run_calls # <<>>
       => post_run_calls =
              << [pipeline_name |-> deployment_config.pipeline,
                  step_name |-> entrypoint_args[STEP_NAME_OPTION],
                  execution_info |-> orch_result] >>
    /\ raised_by = "post_run"
       => /\ epc = "failed"
          /\ raised \in HookErrors
          /\ run_error = raised
          /\ Len(post_run_calls) = 1

\* C6's case: the hook raised after a dispatch that returned an execution
\* info.
C6_Witness ==
    /\ raised_by = "post_run"
    /\ epc = "failed"
    /\ orch_result # None

\* Nothing of the step has been executed.
NothingExecuted ==
    /\ configured = <<>>
    /\ prepare_calls = <<>>
    /\ run_step_calls = <<>>
    /\ post_run_calls = <<>>

\* C7: when the deployment cannot be loaded, or the decoded step name is not
\* a key of its steps, run() fails with an error and the step is not
\* configured, _prepare_run and run_step are not called, post_run is not
\* called.
C7_NoPartialExecution ==
    /\ raised_by \in {"load_deployment_config", "steps"}
       => /\ epc = "failed"
          /\ run_error # ""
          /\ run_error = raised
          /\ NothingExecuted
    /\ (deployment_config # NoDeployment
        /\ entrypoint_args[STEP_NAME_OPTION] \notin deployment_config.steps)
       => /\ epc \in {"loaded", "activated", "failed"}
          /\ epc = "failed" => raised_by = "steps" /\ run_error = "KeyError"
          /\ NothingExecuted

\* C7's case: the lookup of an unknown step name failed, after the
\* integrations were activated.
C7_Witness ==
    /\ epc = "failed"
    /\ raised_by = "steps"
    /\ integrations = 1
    /\ deployment_config.steps # {}

FlagCount(tokens, o) ==
    Cardinality({i \in 1..Len(tokens) : tokens[i] = Flag(o)})

\* C9: for every mapping that covers exactly the declared options, the
\* tokens are the base class's followed by "--step_name" and its value, every
\* declared option's flag is in them once, and decoding them gives the
\* mapping back.
C9_RoundTrip ==
    (DOMAIN kwargs = GetEntrypointOptions
     /\ epc \notin {"start", "constructed"})
    => /\ arguments.raises = ""
       /\ arguments.tokens =
              BaseGetEntrypointArguments(kwargs).tokens
              \o <<Flag(STEP_NAME_OPTION), kwargs[STEP_NAME_OPTION]>>
       /\ \A o \in GetEntrypointOptions :
              FlagCount(arguments.tokens, o) = 1
       /\ parse_error = ""
       /\ entrypoint_args = kwargs

(***************************************************************************)
(* Claims about the resolution view                                        *)
(***************************************************************************)

\* The run ids of a list of run records, oldest first.
IdsOf(st) == [i \in 1..Len(st) |-> i]

\* The call is over: it returned a run or raised.
CallOver == pc \in {"returned", "raised"}

\* Run `run` of the list the call was given holds a completed step `name`.
HasCompleted(run, name) == store_at_call[run][name] = "completed"

\* The position of run `run` in the list the call fetched (0 when not in it).
IndexIn(list, run) ==
    IF \E k \in 1..Len(list) : list[k] = run
    THEN CHOOSE k \in 1..Len(list) : list[k] = run
    ELSE 0

\* C1: when at least one run of the (chronologically ordered) list holds a
\* completed step of the queried name, the call returns a run of the list
\* that holds one, and no run later in the list holds one; runs without the
\* step and runs whose step is not completed are passed over.
C1_MostRecentWins ==
    (CallOver /\ \E k \in 1..Len(fetched) : HasCompleted(fetched[k], step_name))
    => /\ pc = "returned"
       /\ IndexIn(fetched, orig_pipeline_run) > 0
       /\ HasCompleted(orig_pipeline_run, step_name)
       /\ \A k \in 1..Len(fetched) :
              k > IndexIn(fetched, orig_pipeline_run)
              => ~HasCompleted(fetched[k], step_name)

\* C1's case: the oldest of three runs is returned, after a run whose step is
\* not completed and a run without the step were passed over.
C1_Witness ==
    /\ pc = "returned"
    /\ Len(fetched) = 3
    /\ orig_pipeline_run = 1
    /\ store_at_call[2][step_name] = "absent"
    /\ store_at_call[3][step_name] = "incomplete"

\* No run the call was given holds a completed step of the queried name.
NoneCompleted ==
    \A k \in 1..Len(store_at_call) : ~HasCompleted(k, step_name)

\* C2 as amended: when no run holds a completed step of the queried name, the
\* call never holds or returns a run; it examines every run, newest first,
\* and raises LookupError with the step name in its message.
C2_NotFoundRaisesLookupError ==
    /\ (pc \in {"loop", "check", "returned", "raised"} /\ NoneCompleted)
       => orig_pipeline_run = None
    /\ (CallOver /\ NoneCompleted)
       => /\ pc = "raised"
          /\ error = [type |-> "LookupError", step_name |-> step_name]
          /\ examined = Reversed(IdsOf(store_at_call))

\* C2 as stated: the error raised is the dedicated not-found error and not a
\* generic lookup error.
C2_DedicatedNotFoundError ==
    (CallOver /\ NoneCompleted)
    => /\ pc = "raised"
       /\ error.type = "NoCompletedRunFoundError"
       /\ error.type # "LookupError"
       /\ error.step_name = step_name

\* C2's case: the call raised after a run without the step and a run whose
\* step is not completed.
C2_Witness ==
    /\ pc = "raised"
    /\ Len(store_at_call) >= 2
    /\ \E k \in 1..Len(store_at_call) : store_at_call[k][step_name] = "absent"
    /\ \E k \in 1..Len(store_at_call) :
           store_at_call[k][step_name] = "incomplete"
    /\ Len(examined) = Len(store_at_call)

\* C10: the run list is not cached: what an access of PipelineView.runs gives,
\* and what a call of get_run_for_completed_step walks, is the store's list at
\* the time of that access, so the call answers with the newest run holding a
\* completed step among all runs stored before it started.
C10_NoCaching ==
    /\ pc = "runs_returned" => runs_seen = IdsOf(store)
    /\ pc \in {"loop", "check", "returned", "raised"}
       => /\ fetched = IdsOf(store)
          /\ iter = Reversed(IdsOf(store))
    /\ CallOver => orig_pipeline_run = LatestCompleted(store, step_name)

\* C10's case: a call returns a newer run than an earlier call for the same
\* step name returned.
C10_Witness ==
    /\ pc = "returned"
    /\ prev_result.run # None
    /\ prev_result.step_name = step_name
    /\ orig_pipeline_run > prev_result.run

\* C11: with other processes appending runs and completing steps while the
\* call is in progress, the run the call returns was, at some moment between
\* the start of the call and its return, the newest run holding a completed
\* step of the queried name.
C11_ReturnedWasLatest ==
    pc = "returned" => orig_pipeline_run \in latest_seen

\* C12: the call examines the runs of the fetched list one at a time from
\* the newest to the oldest, each at most once, and once it has found a run
\* with a completed step it examines no older run: the runs examined are the
\* newest runs of the list down to the run found.
C12_ShortCircuit ==
    pc \in {"loop", "check", "returned", "raised"}
    => /\ Len(examined) <= Len(fetched)
       /\ \A k \in 1..Len(examined) :
              examined[k] = fetched[Len(fetched) + 1 - k]
       /\ orig_pipeline_run # None
          => /\ pc # "loop"
             /\ examined # <<>>
             /\ examined[Len(examined)] = orig_pipeline_run

\* C12's case: the newest of three runs is returned and the two older runs,
\* one of which holds a completed step too, were not examined.
C12_Witness ==
    /\ pc = "returned"
    /\ Len(fetched) = 3
    /\ orig_pipeline_run = 3
    /\ examined = <<3>>
    /\ store[1][step_name] = "completed"

====
